---- MODULE Spec2Model ----
(***************************************************************************)
(* Model of evaluate/eval_metric.py: the mean-average-precision            *)
(* accumulator MApMetric and its 11-point variant VOC07MApMetric.          *)
(*                                                                         *)
(* Reading of the source.  Every statement that Python and numpy give a    *)
(* meaning is modelled as written, bugs included:                          *)
(*   - update() deletes the rows of the current class from pred (line 96)  *)
(*     BEFORE it reads dets = pred[indices] (line 99), so the rows it      *)
(*     matches are the rows that stand at those positions in what is left  *)
(*     of pred, and the read raises IndexError when a position is past the *)
(*     end;                                                                *)
(*   - the sort of line 101 is an expression whose value is dropped;       *)
(*   - a detection whose best overlap is not above the threshold keeps     *)
(*     status 0 and is filtered out at line 130;                           *)
(*   - recall divides by tp.size, the number of records (line 156);        *)
(*   - every get() adds one more sample to sum_metric and num_inst.        *)
(* A few statements cannot execute at all (they raise on every input or    *)
(* do not parse).  They are read as the operation they spell out:          *)
(*   - lines 74-85 and the call of line 109: iou of the detection's box    *)
(*     against the box of every ground-truth of the class;                 *)
(*   - line 102: one record (score, 0) per row of dets;                    *)
(*   - line 107: j ranges over the rows of dets;                           *)
(*   - line 137: the loop ranges over the items of self.records;           *)
(*   - line 156: recall = tp / float(tp.size);                             *)
(*   - lines 175-176: concatenation of the three pieces.                   *)
(* mx.metric.EvalMetric supplies reset() (num_inst and sum_metric back to  *)
(* zero), name and num.                                                    *)
(***************************************************************************)
EXTENDS Integers, Sequences, FiniteSets, TLC

\* Bounds of the model.
MaxDet == 4       \* rows of one image's detection array
MaxGt == 2        \* rows of one image's ground-truth array
MaxRec == 3       \* records held by the buffers, over all classes
MaxUpdates == 2   \* update() calls since the last reset()
MaxGets == 3      \* get() calls since the last reset()

ClassIds == {0, 1}
BoxA == <<0, 0, 2, 2>>
BoxC == <<1, 0, 3, 2>>      \* overlaps BoxA by 1/3

Det(c, s, b) == [cid |-> c, score |-> s, box |-> b]
Gt(c, b, d) == [cid |-> c, box |-> b, difficult |-> d]

\* A padding row of the detection array: class id, score and box all -1.
PadRow == Det(-1, -1, <<-1, -1, -1, -1>>)

\* The rows of a detection array: two of class 0 on BoxA that differ in score,
\* two of class 1, one on BoxA and one on BoxC, and the padding row.
DetRows == {Det(0, 1, BoxA), Det(0, 2, BoxA), Det(1, 2, BoxA), Det(1, 1, BoxC), PadRow}

\* The rows of a ground-truth array.
GtRows == {Gt(0, BoxA, 0), Gt(0, BoxA, 1), Gt(0, BoxC, 0), Gt(1, BoxA, 0)}

SeqsUpTo(S, n) == UNION {[1..k -> S] : k \in 0..n}

Preds == SeqsUpTo(DetRows, MaxDet)

\* labels: n * 6 with the difficult column, or n * 5 without it (these with
\* one row: they have no flag for update() to read).
Labels ==
  {[cols |-> 6, rows |-> r] : r \in SeqsUpTo(GtRows, MaxGt)}
    \cup {[cols |-> 5, rows |-> <<g>>] : g \in {h \in GtRows : h.difficult = 0}}

Image(gts, dets) == [label |-> [cols |-> 6, rows |-> gts], pred |-> dets]

\* The images the accumulator is fed over its life.  By what update() does
\* with them: a false positive under class 0; a true positive under class 0
\* and a false positive under class 1; a true and a false positive of one
\* score under class 0, and then IndexError; ground-truths and no detection.
Images ==
  { Image(<<>>, <<Det(0, 1, BoxA), PadRow>>),
    Image(<<Gt(0, BoxA, 0)>>, <<Det(0, 1, BoxA), Det(1, 2, BoxA), PadRow>>),
    Image(<<Gt(0, BoxA, 0)>>,
          <<Det(0, 1, BoxA), Det(0, 2, BoxA), Det(1, 2, BoxA), Det(1, 2, BoxA)>>),
    Image(<<Gt(0, BoxA, 0), Gt(1, BoxA, 0)>>, <<>>) }

----------------------------------------------------------------------------
\* update(): matching of one image's detections against its ground-truths.

\* ovp_thresh (default 0.5) as the rational <<numerator, denominator>>.
ovp_thresh == <<1, 2>>

Max2(a, b) == IF a >= b THEN a ELSE b
Min2(a, b) == IF a <= b THEN a ELSE b

\* p < q for rationals with positive denominators.
RatLess(p, q) == p[1] * q[2] < q[1] * p[2]

\* Overlap of box x with box g as the rational inters / uni; 0 when the union
\* is (below 1e-12, that is, with integer coordinates) not positive.  The
\* quotients of these small integers are far more than one unit in the last
\* place apart from each other and from 0.5, so comparing the rationals is
\* comparing the floats.
iou(x, g) ==
  LET ixmin == Max2(g[1], x[1])
      iymin == Max2(g[2], x[2])
      ixmax == Min2(g[3], x[3])
      iymax == Min2(g[4], x[4])
      iw == Max2(ixmax - ixmin, 0)
      ih == Max2(iymax - iymin, 0)
      inters == iw * ih
      uni == (x[3] - x[1]) * (x[4] - x[2]) + (g[3] - g[1]) * (g[4] - g[2]) - inters
  IN IF uni < 1 THEN <<0, 1>> ELSE <<inters, uni>>

RECURSIVE ious(_, _, _)
ious(x, gts, i) ==
  IF i > Len(gts) THEN <<>> ELSE <<iou(x, gts[i].box)>> \o ious(x, gts, i + 1)

\* np.argmax: the first index of the largest value.
argmax(v) ==
  CHOOSE i \in 1..Len(v) :
    /\ \A k \in 1..Len(v) : ~RatLess(v[i], v[k])
    /\ \A k \in 1..(i - 1) : RatLess(v[k], v[i])

\* MatchOne with the difficult flag ignored: the match counts like any other.
MatchOneCountsDifficult(det, gts, cols, found, usediff) ==
  LET ov == ious(det.box, gts, 1)
      ovargmax == argmax(ov)
      ovmax == ov[ovargmax]
  IN IF RatLess(ovp_thresh, ovmax)
     THEN IF ~found[ovargmax]
          THEN [st |-> 1, found |-> [found EXCEPT ![ovargmax] = TRUE]]
          ELSE [st |-> 2, found |-> found]
     ELSE [st |-> 0, found |-> found]

\* One pass of the loop body of lines 108-122 for the row det: the status
\* written to its record (0 not set, 1 tp, 2 fp) and the found flags after it.
MatchOne(det, gts, cols, found, usediff) ==
  LET ov == ious(det.box, gts, 1)
      ovargmax == argmax(ov)
      ovmax == ov[ovargmax]
  IN IF RatLess(ovp_thresh, ovmax)
     THEN IF ~usediff /\ cols >= 6 /\ gts[ovargmax].difficult > 0
          THEN [st |-> 0, found |-> found]
          ELSE IF ~found[ovargmax]
               THEN [st |-> 1, found |-> [found EXCEPT ![ovargmax] = TRUE]]
               ELSE [st |-> 2, found |-> found]
     ELSE [st |-> 0, found |-> found]

RECURSIVE MatchFrom(_, _, _, _, _, _, _)
MatchFrom(dets, gts, cols, usediff, j, found, status) ==
  IF j > Len(dets) THEN [status |-> status, found |-> found]
  ELSE LET r == MatchOne(dets[j], gts, cols, found, usediff)
       IN MatchFrom(dets, gts, cols, usediff, j + 1, r.found, Append(status, r.st))

RECURSIVE Falses(_)
Falses(n) == IF n = 0 THEN <<>> ELSE <<FALSE>> \o Falses(n - 1)

RECURSIVE AllFp(_)
AllFp(n) == IF n = 0 THEN <<>> ELSE <<2>> \o AllFp(n - 1)

\* Lines 102-125: the statuses of the rows of dets, in the order of dets (the
\* sort of line 101 leaves dets as it was), and the found flags at the end.
MatchGroup(dets, gts, cols, usediff) ==
  IF Len(gts) > 0
  THEN MatchFrom(dets, gts, cols, usediff, 1, Falses(Len(gts)), <<>>)
  ELSE [status |-> AllFp(Len(dets)), found |-> <<>>]

\* Line 130: the records whose status is set, as <<score, status>>.
RECURSIVE Kept(_, _, _)
Kept(dets, status, j) ==
  IF j > Len(dets) THEN <<>>
  ELSE (IF status[j] > 0 THEN <<(<<dets[j].score, status[j]>>)>> ELSE <<>>)
       \o Kept(dets, status, j + 1)

\* _insert that stores the new records in place of the old ones.
insertOverwrite(recs, key, new) ==
  IF key \notin DOMAIN recs
  THEN recs @@ (key :> new)
  ELSE [recs EXCEPT ![key] = new]

\* _insert: a new key gets the records, an old one has them stacked below.
insert(recs, key, new) ==
  IF key \notin DOMAIN recs
  THEN recs @@ (key :> new)
  ELSE [recs EXCEPT ![key] = @ \o new]

RECURSIVE Positions(_, _, _)
Positions(pred, cid, i) ==
  IF i > Len(pred) THEN <<>>
  ELSE (IF pred[i].cid = cid THEN <<i>> ELSE <<>>) \o Positions(pred, cid, i + 1)

RECURSIVE Without(_, _, _)
Without(pred, cid, i) ==
  IF i > Len(pred) THEN <<>>
  ELSE (IF pred[i].cid = cid THEN <<>> ELSE <<pred[i]>>) \o Without(pred, cid, i + 1)

RECURSIVE Take(_, _, _)
Take(rest, indices, k) ==
  IF k > Len(indices) THEN <<>> ELSE <<rest[indices[k]]>> \o Take(rest, indices, k + 1)

\* Line 99 after line 96: the rows of what is left of pred at the positions the
\* class had in pred.
DetsOf(rest, indices) == Take(rest, indices, 1)

RECURSIVE GtsOf(_, _, _)
GtsOf(rows, cid, i) ==
  IF i > Len(rows) THEN <<>>
  ELSE (IF rows[i].cid = cid THEN <<rows[i]>> ELSE <<>>) \o GtsOf(rows, cid, i + 1)

\* The while loop of lines 93-132 for one image.  groups lists, for every
\* class the loop matched, the rows it matched and what it decided; raised
\* tells that line 99 raised IndexError, which ends the call with the records
\* inserted so far.
RECURSIVE updateLoop(_, _, _, _, _)
updateLoop(recs, label, pred, groups, usediff) ==
  IF Len(pred) = 0 THEN [records |-> recs, groups |-> groups, raised |-> FALSE]
  ELSE LET cid == pred[1].cid
           indices == Positions(pred, cid, 1)
           rest == Without(pred, cid, 1)
       IN IF cid < 0 THEN updateLoop(recs, label, rest, groups, usediff)
          ELSE IF indices[Len(indices)] > Len(rest)
          THEN [records |-> recs, groups |-> groups, raised |-> TRUE]
          ELSE LET dets == DetsOf(rest, indices)
                   gts == GtsOf(label.rows, cid, 1)
                   m == MatchGroup(dets, gts, label.cols, usediff)
                   new == Kept(dets, m.status, 1)
                   g == [cid |-> cid, dets |-> dets, gts |-> gts,
                         status |-> m.status, found |-> m.found]
               IN updateLoop(IF Len(new) > 0 THEN insert(recs, cid, new) ELSE recs,
                             label, rest, Append(groups, g), usediff)

update(recs, label, pred, usediff) == updateLoop(recs, label, pred, <<>>, usediff)

----------------------------------------------------------------------------
\* numpy float64 arithmetic.  A float is held exactly, as the integer
\* value * 2^60 written in NL limbs of 12 bits, least significant first; every
\* operation computes the exact result and rounds it to 53 significant bits,
\* ties to even, as IEEE 754 does.  The format holds every double from 2^-8
\* up to 2^12, which covers what the metric computes within the bounds; a
\* result it cannot hold is <<-1>>, on which the next operation fails.
\* NaN is the empty tuple.

Base == 4096
NL == 6
FracLimbs == 5


RECURSIVE Zeros(_)
Zeros(k) == IF k = 0 THEN <<>> ELSE <<0>> \o Zeros(k - 1)

RECURSIVE BigPad(_, _)
BigPad(a, k) == IF Len(a) >= k THEN a ELSE BigPad(Append(a, 0), k)

BigIsZero(a) == \A i \in 1..Len(a) : a[i] = 0

RECURSIVE AddFrom(_, _, _, _)
AddFrom(a, b, i, c) ==
  IF i > Len(a) THEN <<>>
  ELSE <<(a[i] + b[i] + c) % Base>> \o AddFrom(a, b, i + 1, (a[i] + b[i] + c) \div Base)

BigAdd(a, b) == AddFrom(a, b, 1, 0)

RECURSIVE SubFrom(_, _, _, _)
SubFrom(a, b, i, w) ==
  IF i > Len(a) THEN <<>>
  ELSE <<(a[i] - b[i] - w + Base) % Base>>
       \o SubFrom(a, b, i + 1, IF a[i] - b[i] - w < 0 THEN 1 ELSE 0)

BigSub(a, b) == SubFrom(a, b, 1, 0)

BigLess(a, b) ==
  \E i \in 1..Len(a) : a[i] < b[i] /\ \A j \in (i+1)..Len(a) : a[j] = b[j]

RECURSIVE MulSmallFrom(_, _, _, _)
MulSmallFrom(a, m, i, c) ==
  IF i > Len(a) THEN <<>>
  ELSE <<(a[i] * m + c) % Base>> \o MulSmallFrom(a, m, i + 1, (a[i] * m + c) \div Base)

BigMulSmall(a, m) == MulSmallFrom(a, m, 1, 0)

RECURSIVE DivSmallFrom(_, _, _, _, _)
DivSmallFrom(a, d, i, r, q) ==
  IF i = 0 THEN [q |-> q, r |-> r]
  ELSE DivSmallFrom(a, d, i - 1, (r * Base + a[i]) % d, <<(r * Base + a[i]) \div d>> \o q)

BigDivSmall(a, d) == DivSmallFrom(a, d, Len(a), 0, <<>>)

RECURSIVE ColSum(_, _, _, _)
ColSum(a, b, k, i) ==
  IF i > Len(a) THEN 0
  ELSE (IF k + 1 - i \in 1..Len(b) THEN a[i] * b[k + 1 - i] ELSE 0) + ColSum(a, b, k, i + 1)

RECURSIVE MulFrom(_, _, _, _)
MulFrom(a, b, k, c) ==
  IF k > 2 * Len(a) THEN <<>>
  ELSE <<(ColSum(a, b, k, 1) + c) % Base>>
       \o MulFrom(a, b, k + 1, (ColSum(a, b, k, 1) + c) \div Base)

BigMul(a, b) == MulFrom(a, b, 1, 0)

Pow2(s) == IF s = 0 THEN 1 ELSE IF s = 1 THEN 2 ELSE IF s = 2 THEN 4
           ELSE IF s = 3 THEN 8 ELSE IF s = 4 THEN 16 ELSE IF s = 5 THEN 32
           ELSE IF s = 6 THEN 64 ELSE IF s = 7 THEN 128 ELSE IF s = 8 THEN 256
           ELSE IF s = 9 THEN 512 ELSE IF s = 10 THEN 1024 ELSE IF s = 11 THEN 2048
           ELSE 4096

BitLen(a) ==
  IF BigIsZero(a) THEN 0
  ELSE LET t == CHOOSE i \in 1..Len(a) : a[i] # 0 /\ \A j \in (i+1)..Len(a) : a[j] = 0
           w == CHOOSE s \in 1..12 : Pow2(s-1) <= a[t] /\ a[t] < Pow2(s)
       IN 12 * (t - 1) + w

ShiftRight(a, k) ==
  LET L == Len(a)
      q == k \div 12
      s == k % 12
      dropped == BigPad(SubSeq(a, q + 1, L), L)
  IN BigDivSmall(dropped, Pow2(s)).q

ShiftLeft(a, k) ==
  LET L == Len(a)
      q == k \div 12
      s == k % 12
      m == BigMulSmall(a, Pow2(s))
  IN SubSeq(Zeros(q) \o m, 1, L)

LowZero(a, k) ==
  LET q == k \div 12
      s == k % 12
  IN /\ \A i \in 1..q : a[i] = 0
     /\ (s > 0 => a[q + 1] % Pow2(s) = 0)

RoundBig(a, sticky) ==
  LET h == BitLen(a) IN
  IF h <= 53 THEN (IF sticky THEN <<-1>> ELSE a)
  ELSE LET drop == h - 53
           m == ShiftRight(a, drop)
           halfbit == ShiftRight(a, drop - 1)[1] % 2
           rest == sticky \/ ~LowZero(a, drop - 1)
           up == halfbit = 1 /\ (rest \/ m[1] % 2 = 1)
           m2 == IF up THEN BigAdd(m, BigPad(<<1>>, Len(a))) ELSE m
       IN ShiftLeft(m2, drop)

DropLow(a, k) ==
  IF \E i \in 1..k : a[i] # 0 THEN <<-1>>
  ELSE SubSeq(a, k + 1, Len(a))

FromInt(n) == <<0, 0, 0, 0, 0, n>>

FZero == FromInt(0)
FOne == FromInt(1)

FAdd(x, y) == RoundBig(BigAdd(x, y), FALSE)
FSub(x, y) == RoundBig(BigSub(x, y), FALSE)
FMul(x, y) == SubSeq(DropLow(RoundBig(BigMul(x, y), FALSE), FracLimbs), 1, NL)
FDivInt(x, d) ==
  IF BigIsZero(x) THEN x
  ELSE LET n == <<0, 0>> \o x
           qr == BigDivSmall(n, d)
       IN DropLow(RoundBig(qr.q, qr.r # 0), 2)
FromRatio(a, b) == FDivInt(FromInt(a), b)
FLess(x, y) == BigLess(x, y)
FMax(x, y) == IF FLess(x, y) THEN y ELSE x

NaN == <<>>
IsNaN(x) == Len(x) = 0

----------------------------------------------------------------------------
\* get(): from the buffers to average precisions.

\* record[record[:,0].argsort()[::-1]]: argsort is ascending and, on arrays
\* this short, an insertion sort, so equal scores keep their order; reversed,
\* scores descend and equal scores stand in the reverse of buffer order.
RECURSIVE PutDesc(_, _)
PutDesc(sorted, r) ==
  IF Len(sorted) = 0 THEN <<r>>
  ELSE IF sorted[1][1] <= r[1] THEN <<r>> \o sorted
  ELSE <<sorted[1]>> \o PutDesc(Tail(sorted), r)

RECURSIVE SortFrom(_, _, _)
SortFrom(record, i, sorted) ==
  IF i > Len(record) THEN sorted
  ELSE SortFrom(record, i + 1, PutDesc(sorted, record[i]))

sorted_records(record) == SortFrom(record, 1, <<>>)

\* np.cumsum(sorted_records[:, 1].astype(int) == st)
RECURSIVE cumsum(_, _, _, _)
cumsum(sorted, st, i, acc) ==
  IF i > Len(sorted) THEN <<>>
  ELSE LET a == acc + (IF sorted[i][2] = st THEN 1 ELSE 0)
       IN <<a>> \o cumsum(sorted, st, i + 1, a)

\* Line 156: the recall at every position is tp over the number of records.
RECURSIVE RecallFrom(_, _)
RecallFrom(tp, i) ==
  IF i > Len(tp) THEN <<>> ELSE <<FromRatio(tp[i], Len(tp))>> \o RecallFrom(tp, i + 1)

RECURSIVE PrecFrom(_, _, _)
PrecFrom(tp, fp, i) ==
  IF i > Len(tp) THEN <<>>
  ELSE <<FromRatio(tp[i], tp[i] + fp[i])>> \o PrecFrom(tp, fp, i + 1)

recall_prec(record) ==
  LET s == sorted_records(record)
      tp == cumsum(s, 1, 1, 0)
      fp == cumsum(s, 2, 1, 0)
  IN [recall |-> RecallFrom(tp, 1), prec |-> PrecFrom(tp, fp, 1)]

\* Lines 179-180: from the right, every precision raised to the largest one
\* after it.
RECURSIVE Ladder(_)
Ladder(mpre) ==
  IF Len(mpre) <= 1 THEN mpre
  ELSE LET t == Ladder(Tail(mpre))
       IN <<FMax(mpre[1], t[1])>> \o t

\* Lines 183-186: over the positions where the recall changes, the sum of
\* (step of recall) * (precision after the step), added left to right.
RECURSIVE ApSum(_, _, _, _)
ApSum(mrec, mpre, i, acc) ==
  IF i >= Len(mrec) THEN acc
  ELSE ApSum(mrec, mpre, i + 1,
             IF mrec[i + 1] # mrec[i]
             THEN FAdd(acc, FMul(FSub(mrec[i + 1], mrec[i]), mpre[i + 1]))
             ELSE acc)

\* MApMetric._average_precision
average_precision(rec, prec) ==
  LET mrec == <<FZero>> \o rec \o <<FOne>>
      mpre == Ladder(<<FZero>> \o prec \o <<FZero>>)
  IN ApSum(mrec, mpre, 1, FZero)

\* np.max(prec[rec >= t]), or 0 when no recall reaches t.
RECURSIVE MaxAbove(_, _, _, _, _)
MaxAbove(rec, prec, t, i, best) ==
  IF i > Len(rec) THEN best
  ELSE MaxAbove(rec, prec, t, i + 1,
                IF ~FLess(rec[i], t) THEN FMax(best, prec[i]) ELSE best)

\* np.arange(0., 1.1, 0.1): element k is 0. + k * 0.1.
RECURSIVE ArangeFrom(_)
ArangeFrom(k) ==
  IF k > 10 THEN <<>> ELSE <<FMul(FromInt(k), FromRatio(1, 10))>> \o ArangeFrom(k + 1)

Thresholds == ArangeFrom(0)

RECURSIVE Voc07From(_, _, _, _)
Voc07From(rec, prec, k, ap) ==
  IF k > 10 THEN ap
  ELSE Voc07From(rec, prec, k + 1,
                 FAdd(ap, FDivInt(MaxAbove(rec, prec, Thresholds[k + 1], 1, FZero), 11)))

\* VOC07MApMetric._average_precision
voc07_average_precision(rec, prec) == Voc07From(rec, prec, 0, FZero)

\* What _update computes for the buffer of one class.
Score(record, voc) ==
  LET rp == recall_prec(record)
  IN [recall |-> rp.recall, prec |-> rp.prec,
      ap |-> IF voc THEN voc07_average_precision(rp.recall, rp.prec)
             ELSE average_precision(rp.recall, rp.prec)]

\* x + y and x / n of floats that may be NaN.
FAddN(x, y) == IF IsNaN(x) \/ IsNaN(y) THEN NaN ELSE FAdd(x, y)
FDivN(x, n) == IF IsNaN(x) THEN NaN ELSE FDivInt(x, n)

RECURSIVE SumAps(_, _)
SumAps(sc, keys) ==
  IF keys = {} THEN FZero
  ELSE LET k == CHOOSE m \in keys : \A o \in keys : m <= o
       IN FAdd(sc[k].ap, SumAps(sc, keys \ {k}))

\* np.mean(aps): NaN for no class at all.  The buffers hold at most two
\* classes, and the sum of two floats does not depend on their order.
MeanAps(sc) ==
  IF DOMAIN sc = {} THEN NaN ELSE FDivInt(SumAps(sc, DOMAIN sc), Cardinality(DOMAIN sc))

\* The number of slots of sum_metric and num_inst: one scalar without
\* class_names (num is None, written 0), else num of them, mAP last.
Slots(n) == IF n = 0 THEN 1 ELSE n

\* _update on sum_metric: class k < num - 1 adds its ap to slot k (the list
\* index k is the position k + 1 here), the last slot adds the mean.
sum_after(sm, sc, n) ==
  [i \in 1..Slots(n) |->
     IF i = Slots(n) THEN FAddN(sm[i], MeanAps(sc))
     ELSE IF (i - 1) \in DOMAIN sc THEN FAddN(sm[i], sc[i - 1].ap) ELSE sm[i]]

inst_after(ni, sc, n) ==
  [i \in 1..Slots(n) |->
     IF i = Slots(n) THEN ni[i] + 1
     ELSE IF (i - 1) \in DOMAIN sc THEN ni[i] + 1 ELSE ni[i]]

\* Lines 36-45: every slot's sum over its count, NaN for a count of 0.
values(sm, ni, n) ==
  [i \in 1..Slots(n) |-> IF ni[i] = 0 THEN NaN ELSE FDivN(sm[i], ni[i])]

----------------------------------------------------------------------------
\* The accumulator.
\*   records, sum_metric, num_inst, num, use_difficult: the object's fields;
\*   voc07: the object is a VOC07MApMetric;
\* What was seen of the object since its construction or last reset():
\*   ret: the values the last get() returned; scored: what its _update
\*        computed for every class of the buffers;
\*   call: the last update() call, its arguments and what its loop did;
\*   gt_seen, det_seen, updates: the ground-truths of each class update() was
\*        given, whether it was given a detection of the class, and the
\*        number of its calls;
\* and op, the last operation called, with wiped: that operation was a
\* reset() of an object that held records and had answered a get().
VARIABLES records, sum_metric, num_inst, num, use_difficult, voc07,
          ret, scored, call, op, wiped, gt_seen, det_seen, updates

vars == <<records, sum_metric, num_inst, num, use_difficult, voc07,
          ret, scored, call, op, wiped, gt_seen, det_seen, updates>>

NoCall == [label |-> [cols |-> 6, rows |-> <<>>], pred |-> <<>>, groups |-> <<>>,
           raised |-> FALSE, done |-> FALSE]

ZeroSums(n) == [i \in 1..Slots(n) |-> FZero]
ZeroInst(n) == [i \in 1..Slots(n) |-> 0]
NoneSeen == [c \in ClassIds |-> 0]
NoDets == [c \in ClassIds |-> FALSE]

\* __init__: the base class resets, the buffers are empty.
Constructed ==
  /\ records = <<>>
  /\ sum_metric = ZeroSums(num)
  /\ num_inst = ZeroInst(num)
  /\ ret = <<>>
  /\ scored = <<>>
  /\ call = NoCall
  /\ op = "init"
  /\ wiped = FALSE
  /\ gt_seen = NoneSeen
  /\ det_seen = NoDets
  /\ updates = 0

\* ovp_thresh and use_difficult at their defaults; with one class name
\* (num = 2) or none (num is None), as MApMetric or as VOC07MApMetric.
Init ==
  /\ num \in {0, 2}
  /\ voc07 \in BOOLEAN
  /\ use_difficult = FALSE
  /\ Constructed

\* reset() without the base class's reset: only the buffers are cleared.
ResetBuffersOnly ==
  /\ records' = <<>>
  /\ ret' = <<>>
  /\ scored' = <<>>
  /\ call' = NoCall
  /\ op' = "reset"
  /\ wiped' = (DOMAIN records # {} /\ num_inst[Slots(num)] > 0)
  /\ gt_seen' = NoneSeen
  /\ det_seen' = NoDets
  /\ updates' = 0
  /\ UNCHANGED <<sum_metric, num_inst, num, use_difficult, voc07>>

\* reset()
Reset ==
  /\ records' = <<>>
  /\ sum_metric' = ZeroSums(num)
  /\ num_inst' = ZeroInst(num)
  /\ ret' = <<>>
  /\ scored' = <<>>
  /\ call' = NoCall
  /\ op' = "reset"
  /\ wiped' = (DOMAIN records # {} /\ num_inst[Slots(num)] > 0)
  /\ gt_seen' = NoneSeen
  /\ det_seen' = NoDets
  /\ updates' = 0
  /\ UNCHANGED <<num, use_difficult, voc07>>

Total(recs) ==
  LET RECURSIVE tot(_)
      tot(keys) == IF keys = {} THEN 0
                   ELSE LET k == CHOOSE m \in keys : TRUE
                        IN Len(recs[k]) + tot(keys \ {k})
  IN tot(DOMAIN recs)

CountGts(rows, c) == Len(GtsOf(rows, c, 1))

\* update(labels, preds) for a batch of one image.
Update(label, pred) ==
  LET r == update(records, label, pred, use_difficult)
  IN /\ updates < MaxUpdates
     /\ Total(r.records) <= MaxRec
     /\ records' = r.records
     /\ call' = [label |-> label, pred |-> pred, groups |-> r.groups,
                 raised |-> r.raised, done |-> TRUE]
     /\ op' = "update"
     /\ wiped' = FALSE
     /\ gt_seen' = [c \in ClassIds |-> gt_seen[c] + CountGts(label.rows, c)]
     /\ det_seen' = [c \in ClassIds |-> det_seen[c] \/ Len(Positions(pred, c, 1)) > 0]
     /\ updates' = updates + 1
     /\ UNCHANGED <<sum_metric, num_inst, num, use_difficult, voc07, ret, scored>>

\* get(): _update, then the values.
Get ==
  /\ num_inst[Slots(num)] < MaxGets
  /\ scored' = [k \in DOMAIN records |-> Score(records[k], voc07)]
  /\ sum_metric' = sum_after(sum_metric, scored', num)
  /\ num_inst' = inst_after(num_inst, scored', num)
  /\ ret' = values(sum_metric', num_inst', num)
  /\ op' = "get"
  /\ wiped' = FALSE
  /\ UNCHANGED <<records, num, use_difficult, voc07, call, gt_seen, det_seen, updates>>

Next ==
  \/ Reset
  \/ Get
  \/ \E img \in Images : Update(img.label, img.pred)

Spec == Init /\ [][Next]_vars

\* One update() on a new accumulator, over every image within the bounds, with
\* use_difficult either way.
InitMatch ==
  /\ num = 0
  /\ voc07 = FALSE
  /\ use_difficult \in BOOLEAN
  /\ Constructed

NextMatch == updates = 0 /\ \E label \in Labels, pred \in Preds : Update(label, pred)

SpecMatch == InitMatch /\ [][NextMatch]_vars

----------------------------------------------------------------------------
\* The claims.

RowsOfClass(pred, c) == {i \in 1..Len(pred) : pred[i].cid = c}
GtsOfClass(rows, c) == {i \in 1..Len(rows) : rows[i].cid = c}
Above(x, g) == RatLess(ovp_thresh, iou(x, g))
RecordsOf(c) == IF c \in DOMAIN records THEN records[c] ELSE <<>>
Count(s, r) == Cardinality({i \in 1..Len(s) : s[i] = r})

\* C1: when exactly two detections of a class both overlap the one
\* ground-truth of that class, not difficult, above ovp_thresh, update() on a
\* new accumulator records the higher-scoring one as TRUE_POSITIVE and the
\* other as FALSE_POSITIVE, whatever their order in the input.
C1_HigherScoreIsTruePositive ==
  call.done =>
    \A c \in ClassIds :
      \A i, j \in RowsOfClass(call.pred, c) :
        \A g \in GtsOfClass(call.label.rows, c) :
          ( /\ i < j
            /\ RowsOfClass(call.pred, c) = {i, j}
            /\ GtsOfClass(call.label.rows, c) = {g}
            /\ call.label.rows[g].difficult = 0
            /\ Above(call.pred[i].box, call.label.rows[g].box)
            /\ Above(call.pred[j].box, call.label.rows[g].box) )
          => LET hi == Max2(call.pred[i].score, call.pred[j].score)
                 lo == Min2(call.pred[i].score, call.pred[j].score)
             IN /\ Len(RecordsOf(c)) = 2
                /\ Count(RecordsOf(c), <<hi, 1>>) = 1
                /\ Count(RecordsOf(c), <<lo, 2>>) = 1

\* The best overlap of box x with the ground-truths of class c is below
\* ovp_thresh, or the image has no ground-truth of class c.
Unmatched(x, rows, c) ==
  \A g \in GtsOfClass(rows, c) : RatLess(iou(x, rows[g].box), ovp_thresh)

\* C3: every detection of a non-negative class whose best overlap with the
\* image's ground-truths of its class is below ovp_thresh, or whose class has
\* no ground-truth in the image, is in its class buffer as a FALSE_POSITIVE:
\* for every score, the buffer of the class holds at least as many
\* FALSE_POSITIVE records of that score as the image has such detections.
C3_UnmatchedIsFalsePositive ==
  call.done =>
    \A c \in ClassIds :
      \A i \in RowsOfClass(call.pred, c) :
        Unmatched(call.pred[i].box, call.label.rows, c) =>
          Count(RecordsOf(c), <<call.pred[i].score, 2>>) >=
            Cardinality({k \in RowsOfClass(call.pred, c) :
                           /\ call.pred[k].score = call.pred[i].score
                           /\ Unmatched(call.pred[k].box, call.label.rows, c)})

\* The ground-truth of the group that row j overlaps best (the first of them,
\* on a tie), when that overlap is above ovp_thresh and the ground-truth is
\* flagged difficult: its index in the group's ground-truths, else 0.
DifficultBest(g, j) ==
  IF Len(g.gts) = 0 THEN 0
  ELSE LET best == CHOOSE b \in 1..Len(g.gts) :
                     /\ \A k \in 1..Len(g.gts) :
                          ~RatLess(iou(g.dets[j].box, g.gts[b].box),
                                   iou(g.dets[j].box, g.gts[k].box))
                     /\ \A k \in 1..(b - 1) :
                          RatLess(iou(g.dets[j].box, g.gts[k].box),
                                  iou(g.dets[j].box, g.gts[b].box))
       IN IF Above(g.dets[j].box, g.gts[best].box) /\ g.gts[best].difficult > 0
          THEN best ELSE 0

C10_RecordsPartitionedByClass ==
  call.done =>
    /\ \A c \in DOMAIN records : c >= 0
    /\ \A c \in DOMAIN records :
         \A i \in 1..Len(records[c]) :
           \E k \in RowsOfClass(call.pred, c) : call.pred[k].score = records[c][i][1]
    /\ \A n \in 1..Len(call.groups) :
         \A j \in 1..Len(call.groups[n].dets) :
           call.groups[n].dets[j].cid = call.groups[n].cid

\* C2: get() called again with no update() in between returns the same values.
C2_GetIsIdempotent == [][(op = "get" /\ op' = "get") => ret' = ret]_vars

\* C5: after reset() the buffers are empty and every sum and count is zero, as
\* in a new accumulator.
C5_ResetRestoresFreshState ==
  op = "reset" =>
    /\ DOMAIN records = {}
    /\ Len(sum_metric) = Slots(num) /\ Len(num_inst) = Slots(num)
    /\ \A i \in 1..Slots(num) : sum_metric[i] = FZero /\ num_inst[i] = 0

\* C5's case: the reset() of an accumulator that held records and had
\* answered a get().
C5_Witness == op = "reset" /\ wiped

\* old is kept in new: every key with its records, in place, at the front.
Extends(old, new) ==
  /\ DOMAIN old \subseteq DOMAIN new
  /\ \A k \in DOMAIN old :
       Len(new[k]) >= Len(old[k]) /\ SubSeq(new[k], 1, Len(old[k])) = old[k]

\* C6: update() only appends to the buffers, get() leaves them as they are,
\* and only reset() removes records.
C6_BufferFrame ==
  [][ /\ op' = "update" => Extends(records, records')
      /\ op' = "get" => records' = records
      /\ ~Extends(records, records') => op' = "reset" ]_vars

\* The records the last update() inserted under key c.
Inserted(c) ==
  Cardinality({<<n, j>> \in (1..Len(call.groups)) \X (1..MaxDet) :
                 /\ call.groups[n].cid = c
                 /\ j <= Len(call.groups[n].status)
                 /\ call.groups[n].status[j] > 0})

\* C6's case: an update() appended records to a buffer that held some.
C6_Witness ==
  /\ op = "update"
  /\ \E c \in DOMAIN records : Inserted(c) > 0 /\ Len(records[c]) > Inserted(c)

\* The true positives among the first k of the score-sorted records of c.
TPUpTo(c, k) ==
  Cardinality({i \in 1..k : sorted_records(records[c])[i][2] = 1})

\* C7: at every position k of a class's score-sorted records, recall[k] is
\* the cumulative true-positive count over the number of ground-truths of
\* the class given to update() since the last reset.
C7_RecallOverGroundTruthCount ==
  op = "get" =>
    \A c \in DOMAIN scored :
      gt_seen[c] > 0 =>
        \A k \in 1..Len(scored[c].recall) :
          scored[c].recall[k] = FromRatio(TPUpTo(c, k), gt_seen[c])

\* C8: a class with a slot of its own that had ground-truths and never a
\* detection is reported with AP 0.0.
C8_NoDetectionsGivesZeroAP ==
  (op = "get" /\ num # 0) =>
    \A c \in ClassIds :
      (c < num - 1 /\ gt_seen[c] > 0 /\ ~det_seen[c]) => ret[c + 1] = FZero

\* C9: every AP computed from a buffer is in [0, 1], and every value get()
\* returns is in [0, 1] or NaN.
C9_APInUnitInterval ==
  op = "get" =>
    /\ \A c \in DOMAIN scored : ~FLess(FOne, scored[c].ap)
    /\ \A i \in 1..Len(ret) : IsNaN(ret[i]) \/ ~FLess(FOne, ret[i])
====
